---- MODULE Spec2Model ----
(***************************************************************************)
(* A model of common-ts/redis (src/src/index.ts): the promise wrappers     *)
(* around the callback API of a Redis client, the RedisService cache       *)
(* facade with its enabled flag, and the RedisHealthService health check   *)
(* with its timeout race.                                                  *)
(*                                                                         *)
(* The Redis client and the server behind it are the environment: a FIFO   *)
(* of commands in flight, answered one at a time against a key-value       *)
(* store whose volatile keys may expire.                                   *)
(***************************************************************************)
EXTENDS Integers, Sequences, FiniteSets, TLC

VARIABLES
    connected,   \* client.connected as read by the RedisService constructor
    enabled,     \* RedisService.enabled
    lastEvent,   \* history: the most recent connection event, "none" before any
    store,       \* the server's database: key -> string value or null
    volatile,    \* the keys that carry a time to live
    queue,       \* every command handed to the client, in the order issued
    head,        \* index in queue of the next command the client answers
    trace,       \* history: every call made, in order
    results,     \* what each call returned: a promise or a plain value
    timeoutArg,  \* the timeout argument given to the RedisHealthService constructor
    timeout,     \* RedisHealthService.timeout
    inner,       \* per check() call: the promise wrapping client.ping
    timers       \* per check() call: the setTimeout timer of the race

vars == <<connected, enabled, lastEvent, store, volatile, queue, head, trace,
          results, timeoutArg, timeout, inner, timers>>

clientVars == <<store, volatile, queue, head>>
facadeVars == <<connected, enabled, lastEvent>>
healthVars == <<timeoutArg, timeout, inner, timers>>

----------------------------------------------------------------------------
(* Bounds of the model and the inputs drawn.                               *)

MaxCalls == 2

Keys == {"k1", "k2"}
Values == {"v1", "v2"}

----------------------------------------------------------------------------
(* JavaScript values, tagged by type.                                      *)

Undefined == [t |-> "undefined", v |-> 0]
Null == [t |-> "null", v |-> 0]
Hole == [t |-> "hole", v |-> 0]
Bool(b) == [t |-> "bool", v |-> b]
Num(n) == [t |-> "num", v |-> n]
Str(s) == [t |-> "str", v |-> s]
Arr(s) == [t |-> "arr", v |-> s]
Err(e) == [t |-> "error", v |-> e]
NewMap == [t |-> "map", v |-> 0]

\* the truthiness of a value in a condition
Truthy(x) ==
    CASE x.t = "undefined" -> FALSE
      [] x.t = "null" -> FALSE
      [] x.t = "bool" -> x.v
      [] x.t = "num" -> x.v # 0
      [] x.t = "str" -> x.v # ""
      [] OTHER -> TRUE

StrictEq(x, y) == x.t = y.t /\ x.v = y.v

Errors == {Err("ECONNRESET")}
TTLArgs == {Undefined, Num(-1), Num(0), Num(1)}
PutTTLs == {Undefined, Num(1)}
Seconds == {Num(1)}
TimeoutArgs == {Undefined, Num(-1), Num(0), Num(1)}
KeyArrays == {<<>>, <<"k2">>, <<"k2", "k1">>}

\* promises and plain return values
Pending == [state |-> "pending", value |-> Undefined]
Resolved(x) == [state |-> "resolved", value |-> x]
Rejected(x) == [state |-> "rejected", value |-> x]
Plain(x) == [state |-> "plain", value |-> x]

NoReply == [err |-> Undefined, result |-> Undefined, given |-> FALSE]

----------------------------------------------------------------------------
(* The environment: the Redis client's command queue and the server.       *)

KeyOrder == <<"k1", "k2">>

Present(st, k) == st[k].t # "null"

\* what the server does with one command: its reply and the database after it
\* (the seconds given to expire are positive)
Exec(name, args, st, vol) ==
    CASE name = "ping" ->
           [reply |-> Str("PONG"), store |-> st, volatile |-> vol]
      [] name = "set" ->
           [reply |-> Str("OK"),
            store |-> [st EXCEPT ![args[1].v] = args[2]],
            volatile |-> IF Len(args) = 4 THEN vol \cup {args[1].v}
                         ELSE vol \ {args[1].v}]
      [] name = "expire" ->
           IF ~Present(st, args[1].v)
           THEN [reply |-> Num(0), store |-> st, volatile |-> vol]
           ELSE [reply |-> Num(1), store |-> st,
                 volatile |-> vol \cup {args[1].v}]
      [] name = "get" ->
           [reply |-> st[args[1].v], store |-> st, volatile |-> vol]
      [] name = "mget" ->
           [reply |-> Arr([i \in 1..Len(args[1].v) |-> st[args[1].v[i]]]),
            store |-> st, volatile |-> vol]
      [] name = "exists" ->
           [reply |-> Num(IF Present(st, args[1].v) THEN 1 ELSE 0),
            store |-> st, volatile |-> vol]
      [] name = "del" ->
           [reply |-> Num(IF Present(st, args[1].v) THEN 1 ELSE 0),
            store |-> [st EXCEPT ![args[1].v] = Null],
            volatile |-> vol \ {args[1].v}]
      [] name = "flushdb" ->
           [reply |-> Str("OK"), store |-> [k \in Keys |-> Null],
            volatile |-> {}]
      [] name = "keys" ->
           [reply |-> Arr(SelectSeq(KeyOrder, LAMBDA k : Present(st, k))),
            store |-> st, volatile |-> vol]
      [] name = "dbsize" ->
           [reply |-> Num(Cardinality({k \in Keys : Present(st, k)})),
            store |-> st, volatile |-> vol]

\* the replies the client may hand to a command's callback when there is no
\* error: the server's reply, or for set a nil reply with nothing stored
Replies(c) ==
    {[applied |-> TRUE, reply |-> Exec(c.name, c.args, store, volatile).reply]}
    \cup (IF c.name = "set"
          THEN {[applied |-> FALSE, reply |-> Null]} ELSE {})

\* client.<name>(args..., callback): the command joins the client's queue
Send(name, args, cb) ==
    queue' = Append(queue, [name |-> name, args |-> args, cb |-> cb,
                            p |-> Len(results) + 1, reply |-> NoReply])

----------------------------------------------------------------------------
(* The primitive operations: one promise around one client call.           *)

ping_cb(err, result) ==
    IF Truthy(err) THEN Rejected(err) ELSE Resolved(result)

ping ==
    /\ results' = Append(results, Pending)
    /\ Send("ping", <<>>, "ping")

set_cb(err, result) ==
    IF Truthy(err) THEN Rejected(err)
    ELSE Resolved(Bool(StrictEq(result, Str("OK"))))

\* set with only the test of the ttl's truthiness
set_Truthy(key, value, expiresInSeconds) ==
    /\ results' = Append(results, Pending)
    /\ IF ~Truthy(expiresInSeconds)
       THEN Send("set", <<Str(key), Str(value)>>, "set")
       ELSE Send("set", <<Str(key), Str(value), Str("EX"), expiresInSeconds>>,
                 "set")

set(key, value, expiresInSeconds) ==
    /\ results' = Append(results, Pending)
    /\ IF ~Truthy(expiresInSeconds) \/ expiresInSeconds.v <= 0
       THEN Send("set", <<Str(key), Str(value)>>, "set")
       ELSE Send("set", <<Str(key), Str(value), Str("EX"), expiresInSeconds>>,
                 "set")

expire_cb(err, result) ==
    IF Truthy(err) THEN Rejected(err)
    ELSE Resolved(Bool(~StrictEq(result, Num(0))))

expire(key, expiresInseconds) ==
    /\ results' = Append(results, Pending)
    /\ Send("expire", <<Str(key), expiresInseconds>>, "expire")

\* the get callback reading the enabled flag again when the reply comes
get_cb_Regated(err, result) ==
    IF ~enabled THEN Resolved(Null)
    ELSE IF Truthy(err) THEN Rejected(err) ELSE Resolved(result)

get_cb(err, result) ==
    IF Truthy(err) THEN Rejected(err) ELSE Resolved(result)

\* get asking the client for the key's existence
get_Exists(key) ==
    /\ results' = Append(results, Pending)
    /\ Send("exists", <<Str(key)>>, "get")

get(key) ==
    /\ results' = Append(results, Pending)
    /\ Send("get", <<Str(key)>>, "get")

getMany_cb(err, result) ==
    IF Truthy(err) THEN Rejected(err) ELSE Resolved(result)

getMany(arr) ==
    /\ results' = Append(results, Pending)
    /\ Send("mget", <<Arr(arr)>>, "getMany")

exists_cb(err, result) ==
    IF Truthy(err) THEN Rejected(err)
    ELSE Resolved(Bool(StrictEq(result, Num(1))))

exists(key) ==
    /\ results' = Append(results, Pending)
    /\ Send("exists", <<Str(key)>>, "exists")

deleteKey_cb(err, result) ==
    IF Truthy(err) THEN Rejected(err)
    ELSE Resolved(Bool(StrictEq(result, Num(1))))

deleteKey(key) ==
    /\ results' = Append(results, Pending)
    /\ Send("del", <<Str(key)>>, "deleteKey")

clear_cb(err, result) ==
    IF Truthy(err) THEN Rejected(err)
    ELSE Resolved(Bool(StrictEq(result, Str("OK"))))

clear ==
    /\ results' = Append(results, Pending)
    /\ Send("flushdb", <<>>, "clear")

keys_cb(err, result) ==
    IF Truthy(err) THEN Rejected(err) ELSE Resolved(result)

keys ==
    /\ results' = Append(results, Pending)
    /\ Send("keys", <<Str("*")>>, "keys")

\* the count callback resolving with the error instead of rejecting
count_cb_Swallow(err, result) ==
    IF Truthy(err) THEN Resolved(err) ELSE Resolved(result)

count_cb(err, result) ==
    IF Truthy(err) THEN Rejected(err) ELSE Resolved(result)

count ==
    /\ results' = Append(results, Pending)
    /\ Send("dbsize", <<>>, "count")

\* the callback a command was issued with, applied to the client's answer
Callback(cb, err, result) ==
    CASE cb = "ping" -> ping_cb(err, result)
      [] cb = "set" -> set_cb(err, result)
      [] cb = "expire" -> expire_cb(err, result)
      [] cb = "get" -> get_cb(err, result)
      [] cb = "getMany" -> getMany_cb(err, result)
      [] cb = "exists" -> exists_cb(err, result)
      [] cb = "deleteKey" -> deleteKey_cb(err, result)
      [] cb = "clear" -> clear_cb(err, result)
      [] cb = "keys" -> keys_cb(err, result)
      [] cb = "count" -> count_cb(err, result)

----------------------------------------------------------------------------
(* RedisHealthService.                                                     *)

DefaultTimeout == 5000

RedisHealthService_constructor(t) ==
    /\ timeoutArg = t
    /\ timeout = IF ~Truthy(t) THEN Num(DefaultTimeout) ELSE t

TimeoutMessage(ms) == [t |-> "message", v |-> <<"Timed out in: ", ms, " milliseconds!">>]

check_cb(err, result) ==
    IF Truthy(err) THEN Rejected(err) ELSE Resolved(NewMap)

\* a race that the last promise to settle wins
Race_LastWins(current, outcome) == outcome

\* Promise.race: the first of its promises to settle settles it, for good
Race(current, outcome) ==
    IF current.state = "pending" THEN outcome ELSE current

\* promiseTimeOut without the timer
promiseTimeOut_NoTimer(timeoutInMilliseconds, p) ==
    /\ results' = Append(results, Pending)
    /\ timers' = timers

\* promiseTimeOut(timeoutInMilliseconds, promise): a new promise racing the
\* given one against a timer
promiseTimeOut(timeoutInMilliseconds, p) ==
    /\ results' = Append(results, Pending)
    /\ timers' = timers @@ (p :> [state |-> "armed", ms |-> timeoutInMilliseconds.v])

RedisHealthService_check ==
    LET p == Len(results) + 1 IN
    /\ inner' = inner @@ (p :> Pending)
    /\ Send("ping", <<>>, "check")
    /\ IF timeout.v > 0
       THEN promiseTimeOut(timeout, p)
       ELSE /\ results' = Append(results, Pending)
            /\ UNCHANGED timers

\* the setTimeout callback of a check: timers of one duration fire in the
\* order they were set
TimerFire ==
    \E p \in DOMAIN timers :
        /\ timers[p].state = "armed"
        /\ \A q \in DOMAIN timers : q < p => timers[q].state = "fired"
        /\ timers' = [timers EXCEPT ![p].state = "fired"]
        /\ results' = [results EXCEPT
                         ![p] = Race(@, Rejected(TimeoutMessage(timers[p].ms)))]
        /\ UNCHANGED <<clientVars, facadeVars, trace, timeoutArg, timeout, inner>>

----------------------------------------------------------------------------
(* RedisService.                                                           *)

RedisService_constructor ==
    /\ enabled = connected
    /\ lastEvent = "none"

\* OnEnd with the flag left as it was
OnEnd_KeepsFlag ==
    /\ enabled' = enabled
    /\ lastEvent' = "end"
    /\ UNCHANGED <<connected, clientVars, trace, results, healthVars>>

OnEnd ==
    /\ enabled' = FALSE
    /\ lastEvent' = "end"
    /\ UNCHANGED <<connected, clientVars, trace, results, healthVars>>

OnReady ==
    /\ enabled' = TRUE
    /\ lastEvent' = "ready"
    /\ UNCHANGED <<connected, clientVars, trace, results, healthVars>>

isEnabled == enabled

RedisService_put(key, value, expiresInSeconds) ==
    IF ~isEnabled
    THEN /\ results' = Append(results, Rejected(Bool(FALSE)))
         /\ UNCHANGED queue
    ELSE set(key, value, expiresInSeconds)

RedisService_expire(key, timeToLive) == expire(key, timeToLive)

\* get without the check of the flag
RedisService_get_Ungated(key) == get(key)

RedisService_get(key) ==
    IF isEnabled
    THEN get(key)
    ELSE /\ results' = Append(results, Resolved(Null))
         /\ UNCHANGED queue

\* new Array(n): n empty slots
NewArray(n) == Arr([i \in 1..n |-> Hole])

\* Array.apply(null, a): the Array function called with a's elements, an
\* empty slot read as undefined; one numeric argument is a length
ArrayApply(a) ==
    LET args == [i \in 1..Len(a.v) |-> IF a.v[i].t = "hole" THEN Undefined ELSE a.v[i]]
    IN IF Len(args) = 1 /\ args[1].t = "num" THEN NewArray(args[1].v)
       ELSE Arr(args)

\* getMany with the disabled result wrapped in a promise
RedisService_getMany_Promise(arr) ==
    IF isEnabled
    THEN getMany(arr)
    ELSE /\ results' = Append(results, Resolved(ArrayApply(NewArray(Len(arr)))))
         /\ UNCHANGED queue

RedisService_getMany(arr) ==
    IF isEnabled
    THEN getMany(arr)
    ELSE /\ results' = Append(results, Plain(ArrayApply(NewArray(Len(arr)))))
         /\ UNCHANGED queue

RedisService_containsKey(key) == exists(key)

\* remove with the check of the flag that put has
RedisService_remove_Gated(key) ==
    IF ~isEnabled
    THEN /\ results' = Append(results, Rejected(Bool(FALSE)))
         /\ UNCHANGED queue
    ELSE deleteKey(key)

RedisService_remove(key) == deleteKey(key)

RedisService_clear == clear

RedisService_keys == keys

RedisService_count == count

----------------------------------------------------------------------------
(* The steps of the system.                                                *)

\* a caller makes one call; the history records it and the flag it saw
Call(api, args, body) ==
    /\ Len(trace) < MaxCalls
    /\ trace' = Append(trace, [api |-> api, args |-> args, gate |-> enabled])
    /\ body
    /\ UNCHANGED <<store, volatile, head, facadeVars, timeoutArg, timeout>>

Put ==
    \E k \in Keys, v \in Values, t \in PutTTLs :
        Call("RedisService.put", <<Str(k), Str(v), t>>, RedisService_put(k, v, t))
        /\ UNCHANGED <<inner, timers>>

Expire ==
    \E k \in Keys, t \in Seconds :
        Call("RedisService.expire", <<Str(k), t>>, RedisService_expire(k, t))
        /\ UNCHANGED <<inner, timers>>

Get ==
    \E k \in Keys :
        Call("RedisService.get", <<Str(k)>>, RedisService_get(k))
        /\ UNCHANGED <<inner, timers>>

GetMany ==
    \E arr \in KeyArrays :
        Call("RedisService.getMany", <<Arr(arr)>>, RedisService_getMany(arr))
        /\ UNCHANGED <<inner, timers>>

ContainsKey ==
    \E k \in Keys :
        Call("RedisService.containsKey", <<Str(k)>>, RedisService_containsKey(k))
        /\ UNCHANGED <<inner, timers>>

Remove ==
    \E k \in Keys :
        Call("RedisService.remove", <<Str(k)>>, RedisService_remove(k))
        /\ UNCHANGED <<inner, timers>>

Clear == Call("RedisService.clear", <<>>, RedisService_clear) /\ UNCHANGED <<inner, timers>>

ListKeys == Call("RedisService.keys", <<>>, RedisService_keys) /\ UNCHANGED <<inner, timers>>

Count == Call("RedisService.count", <<>>, RedisService_count) /\ UNCHANGED <<inner, timers>>

Check == Call("RedisHealthService.check", <<>>, RedisHealthService_check)

\* the answers the client may give to a command
Answers(c) ==
    {[err |-> e, applied |-> FALSE, result |-> Undefined] : e \in Errors}
    \cup {[err |-> Null, applied |-> r.applied, result |-> r.reply] : r \in Replies(c)}

\* the client answers the oldest command in flight and runs its callback
Reply ==
    /\ head <= Len(queue)
    /\ LET c == queue[head] IN
       \E a \in Answers(c) :
           LET ex == Exec(c.name, c.args, store, volatile) IN
           /\ store' = IF a.applied THEN ex.store ELSE store
           /\ volatile' = IF a.applied THEN ex.volatile ELSE volatile
           /\ queue' = [queue EXCEPT ![head].reply =
                            [err |-> a.err, result |-> a.result, given |-> TRUE]]
           /\ head' = head + 1
           /\ IF c.cb = "check"
              THEN LET out == check_cb(a.err, a.result) IN
                   /\ inner' = [inner EXCEPT ![c.p] = out]
                   /\ results' = [results EXCEPT ![c.p] =
                                     IF c.p \in DOMAIN timers THEN Race(@, out) ELSE out]
              ELSE /\ results' = [results EXCEPT ![c.p] = Callback(c.cb, a.err, a.result)]
                   /\ UNCHANGED inner
           /\ UNCHANGED <<facadeVars, trace, timeoutArg, timeout, timers>>

\* a key with a time to live expires
KeyExpires ==
    \E k \in volatile :
        /\ store' = [store EXCEPT ![k] = Null]
        /\ volatile' = volatile \ {k}
        /\ UNCHANGED <<queue, head, facadeVars, trace, results, healthVars>>

InitClient ==
    /\ store = [k \in Keys |-> Null]
    /\ volatile = {}
    /\ queue = <<>>
    /\ head = 1
    /\ trace = <<>>
    /\ results = <<>>
    /\ inner = <<>>
    /\ timers = <<>>

\* the primitive operations called directly
CallPing == Call("ping", <<>>, ping) /\ UNCHANGED <<inner, timers>>

CallSet ==
    \E k \in Keys, v \in Values, t \in TTLArgs :
        Call("set", <<Str(k), Str(v), t>>, set(k, v, t))
        /\ UNCHANGED <<inner, timers>>

CallExpire ==
    \E k \in Keys, t \in Seconds :
        Call("expire", <<Str(k), t>>, expire(k, t))
        /\ UNCHANGED <<inner, timers>>

CallGet ==
    \E k \in Keys :
        Call("get", <<Str(k)>>, get(k)) /\ UNCHANGED <<inner, timers>>

CallGetMany ==
    \E arr \in KeyArrays :
        Call("getMany", <<Arr(arr)>>, getMany(arr))
        /\ UNCHANGED <<inner, timers>>

CallExists ==
    \E k \in Keys :
        Call("exists", <<Str(k)>>, exists(k)) /\ UNCHANGED <<inner, timers>>

CallDeleteKey ==
    \E k \in Keys :
        Call("deleteKey", <<Str(k)>>, deleteKey(k))
        /\ UNCHANGED <<inner, timers>>

CallClear == Call("clear", <<>>, clear) /\ UNCHANGED <<inner, timers>>

CallKeys == Call("keys", <<>>, keys) /\ UNCHANGED <<inner, timers>>

CallCount == Call("count", <<>>, count) /\ UNCHANGED <<inner, timers>>

----------------------------------------------------------------------------
(* The specifications.                                                     *)

\* the cache facade over a client
Init ==
    /\ InitClient
    /\ connected \in BOOLEAN
    /\ RedisService_constructor
    /\ RedisHealthService_constructor(Undefined)

Next ==
    \/ OnEnd \/ OnReady
    \/ Put \/ Expire \/ Get \/ GetMany \/ ContainsKey \/ Remove
    \/ Clear \/ ListKeys \/ Count
    \/ Reply \/ KeyExpires

Spec == Init /\ [][Next]_vars

\* the primitive operations on a client, called directly
PrimNext ==
    \/ CallPing \/ CallSet \/ CallExpire \/ CallGet \/ CallGetMany
    \/ CallExists \/ CallDeleteKey \/ CallClear \/ CallKeys \/ CallCount
    \/ Reply \/ KeyExpires

PrimSpec == Init /\ [][PrimNext]_vars

\* the health service over a client, for each timeout it can be built with
HealthInit ==
    /\ InitClient
    /\ connected = TRUE
    /\ RedisService_constructor
    /\ \E t \in TimeoutArgs : RedisHealthService_constructor(t)

HealthNext == Check \/ Reply \/ TimerFire

HealthSpec == HealthInit /\ [][HealthNext]_vars

\* the same, with the event loop running every timer callback that is due
HealthLive == HealthInit /\ [][HealthNext]_vars /\ WF_vars(TimerFire)

\* set and get, called directly and through the facade, with the deletes
RoundTripNext ==
    \/ CallSet \/ CallGet \/ CallDeleteKey
    \/ Put \/ Get \/ Remove
    \/ Reply \/ KeyExpires

RoundTripSpec == Init /\ [][RoundTripNext]_vars

----------------------------------------------------------------------------
(* Reading the history.                                                    *)

Calls == 1..Len(trace)

\* the commands a call handed to the client
Cmds(i) == {n \in 1..Len(queue) : queue[n].p = i}

\* the one command of a call that issued exactly one
Cmd(i) == queue[CHOOSE n \in Cmds(i) : TRUE]

Settled(i) == results[i].state \in {"resolved", "rejected"}

----------------------------------------------------------------------------
(* C1: isEnabled() is the client's connected value of construction until   *)
(* the first connection event, and from then on it is true exactly when    *)
(* the most recent event was 'ready'; no call and no callback changes it.  *)

\* C1: the flag is what construction or the most recent connection event set
C1_EnabledFollowsEvents ==
    isEnabled = (IF lastEvent = "none" THEN connected ELSE lastEvent = "ready")

\* the connection ended after calls were made and answered while enabled
C1_Witness ==
    /\ lastEvent = "end"
    /\ connected
    /\ ~isEnabled
    /\ \E i \in Calls : trace[i].gate /\ Settled(i)
    /\ \E i \in Calls : ~trace[i].gate /\ results[i].state = "pending"

----------------------------------------------------------------------------
(* C2: while disabled, get resolves to null and put rejects with the bare  *)
(* value false, whatever the key and whatever the store holds, and neither *)
(* hands a command to the client nor changes the store; while enabled, put *)
(* hands the client the set command and get the get command.               *)

C2_Gated(i) ==
    /\ trace[i].api = "RedisService.put" /\ ~trace[i].gate
         => results[i] = Rejected(Bool(FALSE)) /\ Cmds(i) = {}
    /\ trace[i].api = "RedisService.get" /\ ~trace[i].gate
         => results[i] = Resolved(Null) /\ Cmds(i) = {}
    /\ trace[i].api = "RedisService.put" /\ trace[i].gate
         => /\ Cardinality(Cmds(i)) = 1
            /\ Cmd(i).name = "set"
            /\ SubSeq(Cmd(i).args, 1, 2) = SubSeq(trace[i].args, 1, 2)
    /\ trace[i].api = "RedisService.get" /\ trace[i].gate
         => /\ Cardinality(Cmds(i)) = 1
            /\ Cmd(i).name = "get"
            /\ Cmd(i).args = trace[i].args

C2_DisabledCallStep ==
    (/\ Len(trace') = Len(trace) + 1
     /\ trace'[Len(trace')].api \in {"RedisService.put", "RedisService.get"}
     /\ ~isEnabled)
    => /\ queue' = queue
       /\ head' = head
       /\ store' = store
       /\ volatile' = volatile

\* C2: a disabled put or get short-circuits, in every state and at the step of the call; an enabled one delegates
C2_DisabledShortCircuit ==
    /\ [](\A i \in Calls : C2_Gated(i))
    /\ [][C2_DisabledCallStep]_vars

\* a get made while disabled for a key the store holds resolved with null
C2_Witness ==
    \E i \in Calls :
        /\ trace[i].api = "RedisService.get"
        /\ ~trace[i].gate
        /\ Present(store, trace[i].args[1].v)
        /\ results[i] = Resolved(Null)

----------------------------------------------------------------------------
(* C3: expire, containsKey, remove, clear, keys and count hand the client  *)
(* exactly one command (expire, exists, del, flushdb, keys '*', dbsize)    *)
(* whatever the enabled flag, and settle as that command's reply says.     *)

Ungated ==
    {"RedisService.expire", "RedisService.containsKey", "RedisService.remove",
     "RedisService.clear", "RedisService.keys", "RedisService.count"}

C3_Command(i) ==
    CASE trace[i].api = "RedisService.expire" ->
           [name |-> "expire", args |-> trace[i].args]
      [] trace[i].api = "RedisService.containsKey" ->
           [name |-> "exists", args |-> trace[i].args]
      [] trace[i].api = "RedisService.remove" ->
           [name |-> "del", args |-> trace[i].args]
      [] trace[i].api = "RedisService.clear" ->
           [name |-> "flushdb", args |-> <<>>]
      [] trace[i].api = "RedisService.keys" ->
           [name |-> "keys", args |-> <<Str("*")>>]
      [] trace[i].api = "RedisService.count" ->
           [name |-> "dbsize", args |-> <<>>]

C3_Outcome(api, reply) ==
    IF ~reply.given THEN Pending
    ELSE IF reply.err.t = "error" THEN Rejected(reply.err)
    ELSE CASE api = "RedisService.expire" ->
                Resolved(Bool(~(reply.result.t = "num" /\ reply.result.v = 0)))
           [] api \in {"RedisService.containsKey", "RedisService.remove"} ->
                Resolved(Bool(reply.result.t = "num" /\ reply.result.v = 1))
           [] api = "RedisService.clear" ->
                Resolved(Bool(reply.result.t = "str" /\ reply.result.v = "OK"))
           [] OTHER -> Resolved(reply.result)

\* C3: the six ungated methods issue their one command and settle by its reply, whatever the flag
C3_UngatedAlwaysDelegate ==
    \A i \in Calls :
        trace[i].api \in Ungated
        => /\ Cardinality(Cmds(i)) = 1
           /\ Cmd(i).name = C3_Command(i).name
           /\ Cmd(i).args = C3_Command(i).args
           /\ results[i] = C3_Outcome(trace[i].api, Cmd(i).reply)

\* a remove made while disabled removed a key and resolved true
C3_Witness ==
    \E i \in Calls :
        /\ trace[i].api = "RedisService.remove"
        /\ ~trace[i].gate
        /\ results[i] = Resolved(Bool(TRUE))

----------------------------------------------------------------------------
(* C6: getMany, when disabled, returns at once a plain array of undefined  *)
(* as long as the array of keys given, and hands the client nothing; when  *)
(* enabled it hands the client one mget of the keys and resolves with the  *)
(* values the store holds for them, in their order, null for a key absent. *)

C6_Call(i) ==
    LET arr == trace[i].args[1].v IN
    IF ~trace[i].gate
    THEN /\ results[i].state = "plain"
         /\ results[i].value.t = "arr"
         /\ Len(results[i].value.v) = Len(arr)
         /\ \A j \in 1..Len(arr) : results[i].value.v[j] = Undefined
         /\ Cmds(i) = {}
    ELSE /\ Cardinality(Cmds(i)) = 1
         /\ Cmd(i).name = "mget"
         /\ Cmd(i).args = <<Arr(arr)>>
         /\ results[i].state \in {"pending", "resolved", "rejected"}

C6_ReplyStep ==
    (/\ head' = head + 1
     /\ trace[queue[head].p].api = "RedisService.getMany"
     /\ queue'[head].reply.err = Null)
    => LET arr == trace[queue[head].p].args[1].v IN
       results'[queue[head].p] = Resolved(Arr([j \in 1..Len(arr) |-> store[arr[j]]]))

C6_DisabledCallStep ==
    (/\ Len(trace') = Len(trace) + 1
     /\ trace'[Len(trace')].api = "RedisService.getMany")
    => results'[Len(trace')].state = (IF isEnabled THEN "pending" ELSE "plain")

\* C6: getMany returns the plain array of undefined when disabled and the store's values in key order when enabled
C6_GetMany ==
    /\ [](\A i \in Calls : trace[i].api = "RedisService.getMany" => C6_Call(i))
    /\ [][C6_ReplyStep /\ C6_DisabledCallStep]_vars

\* a disabled getMany of one key returned an array of one undefined, and an
\* enabled getMany of two or more keys resolved
C6_Witness ==
    /\ \E i \in Calls :
           /\ trace[i].api = "RedisService.getMany"
           /\ ~trace[i].gate
           /\ results[i] = Plain(Arr(<<Undefined>>))
    /\ \E i \in Calls :
           /\ trace[i].api = "RedisService.getMany"
           /\ trace[i].gate
           /\ results[i].state = "resolved"
           /\ Len(results[i].value.v) >= 2

----------------------------------------------------------------------------
(* C7: each primitive operation hands the client exactly one command, with *)
(* no second one after an error; its promise rejects with the very error   *)
(* the client's callback reports, and resolves when it reports none.       *)

Primitives ==
    {"ping", "set", "expire", "get", "getMany", "exists", "deleteKey", "clear",
     "keys", "count"}

\* C7: one command per primitive call, the client's error rejected unchanged, no error resolved
C7_ErrorPropagation ==
    \A i \in Calls :
        trace[i].api \in Primitives
        => /\ Cardinality(Cmds(i)) = 1
           /\ LET r == Cmd(i).reply IN
              /\ ~r.given => results[i] = Pending
              /\ r.given /\ r.err.t = "error" => results[i] = Rejected(r.err)
              /\ r.given /\ r.err.t # "error" => results[i].state = "resolved"

\* one operation rejected with the client's error, another resolved
C7_Witness ==
    /\ \E i \in Calls : results[i].state = "rejected" /\ results[i].value \in Errors
    /\ \E i \in Calls : results[i].state = "resolved"
    /\ \A i \in Calls : trace[i].api \in Primitives

----------------------------------------------------------------------------
(* C8: set, given no ttl or a ttl of zero or less, sends the plain set of  *)
(* key and value; given a ttl above zero it sends the set with 'EX' and    *)
(* the ttl. Either way it resolves true for the reply 'OK', false for any  *)
(* other reply, and rejects with the client's error.                       *)

\* C8: set sends the plain or the 'EX' command by its ttl and resolves with reply = 'OK'
C8_SetBranches ==
    \A i \in Calls :
        trace[i].api = "set"
        => LET key == trace[i].args[1]
               value == trace[i].args[2]
               ttl == trace[i].args[3]
               r == Cmd(i).reply
           IN /\ Cardinality(Cmds(i)) = 1
              /\ Cmd(i).name = "set"
              /\ Cmd(i).args = IF ttl.t = "undefined" \/ ttl.v <= 0
                               THEN <<key, value>>
                               ELSE <<key, value, Str("EX"), ttl>>
              /\ results[i] =
                   IF ~r.given THEN Pending
                   ELSE IF r.err.t = "error" THEN Rejected(r.err)
                   ELSE Resolved(Bool(r.result.t = "str" /\ r.result.v = "OK"))

\* a set with a negative ttl went out plain and resolved true, and a set
\* with a ttl of one went out with 'EX' and resolved false on a nil reply
C8_Witness ==
    /\ \E i \in Calls :
           /\ trace[i].api = "set"
           /\ trace[i].args[3] = Num(-1)
           /\ Len(Cmd(i).args) = 2
           /\ results[i] = Resolved(Bool(TRUE))
    /\ \E i \in Calls :
           /\ trace[i].api = "set"
           /\ trace[i].args[3] = Num(1)
           /\ Len(Cmd(i).args) = 4
           /\ results[i] = Resolved(Bool(FALSE))

----------------------------------------------------------------------------
(* C4: check() sends one ping and, its timeout being positive, races the   *)
(* ping against a timer. The first of the two to settle fixes the outcome  *)
(* for good: the ping's outcome if its reply comes first, the rejection    *)
(* with the timeout message if the timer fires first. The timer firing     *)
(* cancels nothing: the ping stays in flight.                              *)

Checks == {i \in Calls : trace[i].api = "RedisHealthService.check"}

\* the place in the queue of the ping of check i
PingOf(i) == CHOOSE n \in Cmds(i) : TRUE

C4_PingOutcome(r) ==
    IF r.err.t = "error" THEN Rejected(r.err) ELSE Resolved(NewMap)

C4_Started(i) ==
    /\ Cardinality(Cmds(i)) = 1
    /\ Cmd(i).name = "ping"
    /\ timeout.v > 0 <=> i \in DOMAIN timers
    /\ i \in DOMAIN timers =>
         (results[i] = Pending
            <=> ~Cmd(i).reply.given /\ timers[i].state = "armed")

C4_RaceStep(i) ==
    /\ results[i] # Pending => results'[i] = results[i]
    /\ (results[i] = Pending /\ queue'[PingOf(i)].reply.given)
         => results'[i] = C4_PingOutcome(queue'[PingOf(i)].reply)
    /\ (results[i] = Pending /\ timers'[i].state = "fired")
         => /\ results'[i] = Rejected(TimeoutMessage(timeout.v))
            /\ queue' = queue
            /\ head' = head

\* C4: the first of ping reply and timer to happen settles the check for good, and the timer cancels nothing
C4_HealthCheckRace ==
    /\ [](\A i \in Checks : C4_Started(i))
    /\ [][\A i \in Checks : timeout.v > 0 => C4_RaceStep(i)]_vars

\* one check timed out and its ping was answered afterwards, another was
\* settled by its ping and its timer fired afterwards
C4_Witness ==
    /\ \E i \in Checks :
           /\ results[i] = Rejected(TimeoutMessage(timeout.v))
           /\ Cmd(i).reply.given
           /\ Cmd(i).reply.err = Null
    /\ \E i \in Checks :
           /\ results[i] = Resolved(NewMap)
           /\ timers[i].state = "fired"

----------------------------------------------------------------------------
(* C5: a RedisHealthService built with a timeout of zero or less, zero     *)
(* included, starts no timer in check() and never rejects with the timeout *)
(* message.                                                                *)

C5_NonPositiveSkipsRace ==
    (timeoutArg.t = "num" /\ timeoutArg.v <= 0)
    => /\ DOMAIN timers = {}
       /\ \A i \in Checks : results[i].value.t # "message"

----------------------------------------------------------------------------
(* C10: check() with a positive timeout whose ping is never answered       *)
(* rejects with 'Timed out in: <timeout> milliseconds!': as long as the    *)
(* ping is unanswered the check is pending or rejected with that message,  *)
(* and it does not stay pending for ever.                                  *)

C10_Unanswered(i) ==
    (i \in Checks /\ timeout.v > 0 /\ ~Cmd(i).reply.given)
    => results[i] \in {Pending, Rejected(TimeoutMessage(timeout.v))}

C10_Waiting(i) == i \in Checks /\ timeout.v > 0

C10_Over(i) ==
    /\ i \in Checks
    /\ \/ results[i] = Rejected(TimeoutMessage(timeout.v))
       \/ Cmd(i).reply.given

\* C10: a check with a positive timeout and an unanswered ping never resolves and in the end rejects with the timeout message
C10_TimesOut ==
    \A i \in 1..MaxCalls :
        /\ []C10_Unanswered(i)
        /\ C10_Waiting(i) ~> C10_Over(i)

\* a check with a timeout of one millisecond rejected with the message
\* while its ping was still unanswered
C10_Witness ==
    \E i \in Checks :
        /\ timeoutArg = Num(1)
        /\ ~Cmd(i).reply.given
        /\ results[i] = Rejected([t |-> "message",
                                  v |-> <<"Timed out in: ", 1, " milliseconds!">>])

----------------------------------------------------------------------------
(* C9: a set of a key and a value without a ttl that resolved true, then a *)
(* get of that key with no set, delete or clear of the key issued between  *)
(* the two, resolves with that very value; so does a put followed by a get *)
(* through the facade while it is enabled.                                 *)

Setters == {"set", "RedisService.put"}
Getters == {"get", "RedisService.get"}

\* call x handed the client a command that may change what the key holds
C9_Writes(x, key) ==
    \E n \in Cmds(x) :
        \/ queue[n].name \in {"set", "expire", "del"} /\ queue[n].args[1] = key
        \/ queue[n].name = "flushdb"

\* C9: a get after a successful set or put without ttl of the same key, nothing written between, resolves with the value
C9_RoundTrip ==
    \A i \in Calls, j \in Calls :
        (/\ i < j
         /\ trace[i].api \in Setters
         /\ trace[i].args[3] = Undefined
         /\ results[i] = Resolved(Bool(TRUE))
         /\ trace[j].api \in Getters
         /\ trace[j].gate \/ trace[j].api = "get"
         /\ trace[j].args[1] = trace[i].args[1]
         /\ results[j].state = "resolved"
         /\ \A x \in (i + 1)..(j - 1) : ~C9_Writes(x, trace[i].args[1]))
        => results[j] = Resolved(trace[i].args[2])

\* a put through the facade resolved true and the get after it resolved
\* with the value put
C9_Witness ==
    \E i \in Calls, j \in Calls :
        /\ i < j
        /\ trace[i].api = "RedisService.put"
        /\ trace[i].args[3] = Undefined
        /\ results[i] = Resolved(Bool(TRUE))
        /\ trace[j].api = "RedisService.get"
        /\ trace[j].args[1] = trace[i].args[1]
        /\ results[j] = Resolved(trace[i].args[2])

----------------------------------------------------------------------------
(* C11: put, get and getMany read the enabled flag once, when called. A    *)
(* call made while enabled settles as the client's reply or error says,    *)
(* also when the reply comes after an 'end' event; a call short-circuited  *)
(* while disabled keeps its result and is never handed to the client, also *)
(* after a later 'ready' event.                                            *)

Gated == {"RedisService.put", "RedisService.get", "RedisService.getMany"}

C11_ShortCircuit(i) ==
    CASE trace[i].api = "RedisService.put" -> Rejected(Bool(FALSE))
      [] trace[i].api = "RedisService.get" -> Resolved(Null)
      [] trace[i].api = "RedisService.getMany" ->
           Plain(Arr([j \in 1..Len(trace[i].args[1].v) |-> Undefined]))

C11_ReplyOutcome(api, r) ==
    IF r.err.t = "error" THEN Rejected(r.err)
    ELSE IF api = "RedisService.put"
    THEN Resolved(Bool(r.result.t = "str" /\ r.result.v = "OK"))
    ELSE Resolved(r.result)

C11_Fixed(i) ==
    IF trace[i].gate
    THEN /\ Cardinality(Cmds(i)) = 1
         /\ results[i] = IF ~Cmd(i).reply.given THEN Pending
                         ELSE C11_ReplyOutcome(trace[i].api, Cmd(i).reply)
    ELSE /\ Cmds(i) = {}
         /\ results[i] = C11_ShortCircuit(i)

C11_Step(i) ==
    /\ trace'[i] = trace[i]
    /\ {n \in 1..Len(queue') : queue'[n].p = i} = Cmds(i)
    /\ ~trace[i].gate => results'[i] = results[i]
    /\ (trace[i].gate /\ results[i] = Pending /\ results'[i] # Pending)
         => LET n == CHOOSE n \in Cmds(i) : TRUE IN
            /\ queue'[n].reply.given
            /\ results'[i] = C11_ReplyOutcome(trace[i].api, queue'[n].reply)
    /\ (trace[i].gate /\ results[i] # Pending) => results'[i] = results[i]

\* C11: the flag read at the call decides for good between the client's reply and the short-circuit result
C11_GateEvaluatedOnce ==
    /\ [](\A i \in Calls : trace[i].api \in Gated => C11_Fixed(i))
    /\ [][\A i \in Calls : trace[i].api \in Gated => C11_Step(i)]_vars

\* a call short-circuited before the 'ready' event still has its result, and
\* a call made after it is the next the client answers, the connection
\* having ended since
C11_Witness ==
    \E i \in Calls, j \in Calls :
        /\ i < j
        /\ ~connected
        /\ lastEvent = "end"
        /\ trace[i].api \in Gated
        /\ ~trace[i].gate
        /\ results[i] = C11_ShortCircuit(i)
        /\ trace[j].api \in Gated
        /\ trace[j].gate
        /\ head \in Cmds(j)
        /\ results[j] = Pending

====
